---- MODULE Spec2Model ----
(***************************************************************************)
(* Model of config_gui.py: the ConfigGUI serial terminal.                  *)
(*                                                                         *)
(* Two kinds of control flow exist in the program:                         *)
(*   - the Tk main thread, which runs one handler at a time                *)
(*     (toggle_connection, connect, disconnect, send_command, on_closing,  *)
(*     and the callbacks queued with root.after);                          *)
(*   - the daemon threads started by connect(), each running receive_data. *)
(* A handler of the main thread is modelled statement by statement (fg.pc) *)
(* wherever a receive thread can observe the fields it assigns.            *)
(***************************************************************************)
EXTENDS Integers, Sequences, FiniteSets, TLC

VARIABLES
    serial_connection,  \* self.serial_connection: None, or the id of a Serial object
    is_connected,       \* self.is_connected
    receive_thread,     \* self.receive_thread: None, or the id of the last thread started
    com_port,           \* self.com_port
    baud_rate,          \* self.baud_rate
    command_var,        \* self.command_var: the text of the entry widget
    status_label,       \* text of self.status_label
    fg,                 \* the main thread: handler being run and its position
    threads,            \* the receive threads started so far: position of each
    isopen,             \* the Serial objects that are open
    opened,             \* number of Serial objects constructed so far
    rx,                 \* bytes waiting in the port's input buffer
    tx,                 \* byte strings written to the port, with the handle used
    terminal,           \* the lines inserted in self.terminal, oldest first
    after_q,            \* callbacks queued with root.after(0, ...)
    dialog,             \* the messagebox on the screen (or the traceback Tk printed)
    destroyed,          \* root.destroy() has been called
    device              \* the attached device: the bytes it is set to send, and how
                        \* many of them it has sent

vars == <<serial_connection, is_connected, receive_thread, com_port, baud_rate,
          command_var, status_label, fg, threads, isopen, opened, rx, tx,
          terminal, after_q, dialog, destroyed, device>>

(***************************************************************************)
(* Bounds of the model.                                                    *)
(***************************************************************************)
MaxOpens == 2      \* Serial objects constructed in one run
MaxText == 2       \* characters typed in the command entry
MaxTerminal == 3   \* lines inserted in the terminal in one run
MaxRx == 1         \* bytes waiting in the input buffer
MaxTx == 1         \* writes recorded in one run
MaxAfter == 1      \* callbacks waiting in the Tk queue

None == 0

\* Characters of the model: a letter, a blank and the line terminator.
Chars == {"p", " ", "\n"}
Whitespace == {" ", "\n"}

COM8 == <<"C", "O", "M", "8">>
COM9 == <<"C", "O", "M", "9">>
COM10 == <<"C", "O", "M", "1", "0">>
COM11 == <<"C", "O", "M", "1", "1">>
Ports == {COM8, COM9, COM10, COM11}
Bauds == {9600, 19200, 38400, 57600, 115200}

RECURSIVE SeqsUpTo(_, _)
SeqsUpTo(S, n) ==
    IF n = 0 THEN {<<>>}
    ELSE LET shorter == SeqsUpTo(S, n - 1)
         IN  shorter \cup {Append(s, c) : s \in {t \in shorter : Len(t) = n - 1}, c \in S}

Texts == SeqsUpTo(Chars, MaxText)

(***************************************************************************)
(* str.strip, str.rstrip, str.endswith                                     *)
(***************************************************************************)
RECURSIVE lstrip(_)
lstrip(s) ==
    IF s # <<>> /\ Head(s) \in Whitespace THEN lstrip(Tail(s)) ELSE s

RECURSIVE rstrip(_)
rstrip(s) ==
    IF s # <<>> /\ s[Len(s)] \in Whitespace THEN rstrip(SubSeq(s, 1, Len(s) - 1)) ELSE s

strip(s) == rstrip(lstrip(s))

endswith_newline(s) == s # <<>> /\ s[Len(s)] = "\n"

(***************************************************************************)
(* str.encode('utf-8') and bytes.decode('utf-8', errors='ignore') on the   *)
(* characters of the model.  Byte 128 is a lone continuation byte: it is   *)
(* no character, and errors='ignore' drops it.                             *)
(***************************************************************************)
CodePoint(c) == CASE c = "p" -> 112 [] c = " " -> 32 [] c = "\n" -> 10
                  [] c = "A" -> 65 [] c = "B" -> 66 [] c = "C" -> 67 [] c = "D" -> 68
                  [] c = "E" -> 69 [] c = "F" -> 70 [] c = "G" -> 71
CharOf(b) == CASE b = 112 -> "p" [] b = 32 -> " " [] b = 10 -> "\n"
               [] b = 65 -> "A" [] b = 66 -> "B" [] b = 67 -> "C" [] b = 68 -> "D"
               [] b = 69 -> "E" [] b = 70 -> "F" [] b = 71 -> "G"
InvalidByte == 128
Bytes == {CodePoint(c) : c \in Chars} \cup {InvalidByte}

encode(s) == [i \in 1..Len(s) |-> CodePoint(s[i])]

RECURSIVE decode(_)
decode(bs) ==
    IF bs = <<>> THEN <<>>
    ELSE IF Head(bs) = InvalidByte THEN decode(Tail(bs))
    ELSE <<CharOf(Head(bs))>> \o decode(Tail(bs))

(***************************************************************************)
(* str(n) of a positive integer, as the f-string of line 122 formats it.   *)
(***************************************************************************)
Digit(d) == CASE d = 0 -> "0" [] d = 1 -> "1" [] d = 2 -> "2" [] d = 3 -> "3"
              [] d = 4 -> "4" [] d = 5 -> "5" [] d = 6 -> "6" [] d = 7 -> "7"
              [] d = 8 -> "8" [] d = 9 -> "9"

RECURSIVE str(_)
str(n) == IF n < 10 THEN <<Digit(n)>> ELSE str(n \div 10) \o <<Digit(n % 10)>>

(***************************************************************************)
(* log_message: one line of the terminal.  The time stamp is the wall      *)
(* clock and is left out; a line is its prefix and its message, both       *)
(* sequences of characters.                                                *)
(***************************************************************************)
log_message(message, prefix) ==
    Append(terminal, [prefix |-> prefix, message |-> message])

INFO == <<"[", "I", "N", "F", "O", "]", " ">>
SENT == <<">", " ">>
DATA == <<>>

\* line 122: f"Connected to {self.com_port} at {self.baud_rate} baud"
ConnectedMessage ==
    <<"C", "o", "n", "n", "e", "c", "t", "e", "d", " ", "t", "o", " ">> \o com_port
        \o <<" ", "a", "t", " ">> \o str(baud_rate) \o <<" ", "b", "a", "u", "d">>

\* line 134
DisconnectedMessage == <<"D", "i", "s", "c", "o", "n", "n", "e", "c", "t", "e", "d">>

\* The rstrip() of line 159 left out.
SentMessage_unstripped(command) == <<"S", "e", "n", "t", ":", " ">> \o command

\* line 159: f"Sent: {command.rstrip()}"
SentMessage(command) == <<"S", "e", "n", "t", ":", " ">> \o rstrip(command)

TypeOK ==
    /\ serial_connection \in 0..MaxOpens
    /\ is_connected \in BOOLEAN
    /\ receive_thread \in 0..MaxOpens
    /\ com_port \in Ports
    /\ baud_rate \in Bauds
    /\ command_var \in Texts
    /\ status_label \in {"Connected", "Disconnected"}
    /\ isopen \subseteq 1..opened
    /\ opened \in 0..MaxOpens
    /\ Len(threads) <= MaxOpens
    /\ Len(rx) <= MaxRx + Len(device.stream)
    /\ Len(tx) <= MaxTx
    /\ Len(terminal) <= MaxTerminal + Len(device.stream)
    /\ Len(after_q) <= MaxAfter + Len(device.stream)
    /\ destroyed \in BOOLEAN
    /\ device.sent \in 0..Len(device.stream)

\* The frame of a handler: the method the event called, the statement it is at,
\* and what the handler was called on (the flag and the length of the terminal).
\* When the handler has returned (pc = "idle") the frame of the last one is kept.
Frame(op, pc) == [op |-> op, pc |-> pc, c0 |-> is_connected, t0 |-> Len(terminal)]
NoFrame == [op |-> "none", pc |-> "idle", c0 |-> FALSE, t0 |-> 0]
Return(f) == [f EXCEPT !.pc = "idle"]

\* A device that is set to send nothing of its own.
Silent == [stream |-> <<>>, sent |-> 0]

\* A device that is set to send three lines, which reach the port as "AB", then
\* "C\n", then "DE\nFG\n" or in any other pieces.
ThreeLines == encode(<<"A", "B", "C", "\n", "D", "E", "\n", "F", "G", "\n">>)
Streaming == [stream |-> ThreeLines, sent |-> 0]

\* A device that is set to send two lines.
TwoLines == encode(<<"A", "\n", "B", "\n">>)

\* The state after ConfigGUI.__init__.
Constructed ==
    /\ serial_connection = None
    /\ is_connected = FALSE
    /\ receive_thread = None
    /\ com_port = COM9
    /\ baud_rate = 115200
    /\ command_var = <<>>
    /\ status_label = "Disconnected"
    /\ fg = NoFrame
    /\ threads = <<>>
    /\ isopen = {}
    /\ opened = 0
    /\ rx = <<>>
    /\ tx = <<>>
    /\ terminal = <<>>
    /\ after_q = <<>>
    /\ dialog = "none"
    /\ destroyed = FALSE

Init == Constructed /\ device = Silent
InitReconnect == Constructed /\ device = [stream |-> TwoLines, sent |-> 0]

\* The state when the first click on Connect has been handled (lines 107-122
\* have run once, the receive thread has not run yet), with a device that is
\* about to send three lines.
InitStream ==
    /\ serial_connection = 1
    /\ is_connected = TRUE
    /\ receive_thread = 1
    /\ com_port = COM9
    /\ baud_rate = 115200
    /\ command_var = <<>>
    /\ status_label = "Connected"
    /\ fg = [op |-> "toggle_connection", pc |-> "idle", c0 |-> FALSE, t0 |-> 0]
    /\ threads = <<[pc |-> "while_flag", ref |-> None, data |-> <<>>]>>
    /\ isopen = {1}
    /\ opened = 1
    /\ rx = <<>>
    /\ tx = <<>>
    /\ terminal = <<[prefix |-> INFO, message |-> ConnectedMessage]>>
    /\ after_q = <<>>
    /\ dialog = "none"
    /\ destroyed = FALSE
    /\ device = Streaming

\* The main loop takes the next event: no handler is running, the window lives,
\* and the terminal of the model has room for the line the handler may insert
\* (MaxTerminal lines, and one more for each byte the device is set to send).
MainLoopReady ==
    /\ fg.pc = "idle"
    /\ ~destroyed
    /\ Len(terminal) < MaxTerminal + Len(device.stream)

(***************************************************************************)
(* The main thread.                                                        *)
(***************************************************************************)
\* connect(), line 109: serial.Serial(...) opens the port and the result is
\* assigned, or the constructor raises SerialException and line 125 shows it.
connect_open ==
    /\ fg.pc = "c_open"
    /\ \/ /\ opened < MaxOpens
          /\ opened' = opened + 1
          /\ isopen' = isopen \cup {opened + 1}
          /\ serial_connection' = opened + 1
          /\ rx' = <<>>
          /\ fg' = [fg EXCEPT !.pc = "c_flag"]
          /\ UNCHANGED dialog
       \/ /\ dialog' = "Connection Error"
          /\ fg' = [fg EXCEPT !.pc = "dialog"]
          /\ UNCHANGED <<opened, isopen, serial_connection, rx>>
    /\ UNCHANGED <<is_connected, receive_thread, com_port, baud_rate, command_var,
                   status_label, threads, tx, terminal, after_q, destroyed, device>>

\* connect(), lines 114-116.
connect_flag ==
    /\ fg.pc = "c_flag"
    /\ is_connected' = TRUE
    /\ status_label' = "Connected"
    /\ fg' = [fg EXCEPT !.pc = "c_start"]
    /\ UNCHANGED <<serial_connection, receive_thread, com_port, baud_rate, command_var,
                   threads, isopen, opened, rx, tx, terminal, after_q, dialog,
                   destroyed, device>>

NewThread == [pc |-> "while_flag", ref |-> None, data |-> <<>>]

\* connect(), lines 119-120.
connect_start ==
    /\ fg.pc = "c_start"
    /\ threads' = Append(threads, NewThread)
    /\ receive_thread' = Len(threads) + 1
    /\ fg' = [fg EXCEPT !.pc = "c_log"]
    /\ UNCHANGED <<serial_connection, is_connected, com_port, baud_rate, command_var,
                   status_label, isopen, opened, rx, tx, terminal, after_q, dialog,
                   destroyed, device>>

\* connect(), line 122.
connect_log ==
    /\ fg.pc = "c_log"
    /\ terminal' = log_message(ConnectedMessage, INFO)
    /\ fg' = Return(fg)
    /\ UNCHANGED <<serial_connection, is_connected, receive_thread, com_port, baud_rate,
                   command_var, status_label, threads, isopen, opened, rx, tx, after_q,
                   dialog, destroyed, device>>

\* disconnect(), lines 128-129.
disconnect_close ==
    /\ fg.pc = "d_close"
    /\ IF serial_connection # None
       THEN /\ isopen' = isopen \ {serial_connection}
            /\ fg' = [fg EXCEPT !.pc = "d_clear"]
       ELSE /\ isopen' = isopen
            /\ fg' = [fg EXCEPT !.pc = "d_flag"]
    /\ UNCHANGED <<serial_connection, is_connected, receive_thread, com_port, baud_rate,
                   command_var, status_label, threads, opened, rx, tx, terminal,
                   after_q, dialog, destroyed, device>>

\* disconnect(), line 130.
disconnect_clear ==
    /\ fg.pc = "d_clear"
    /\ serial_connection' = None
    /\ fg' = [fg EXCEPT !.pc = "d_flag"]
    /\ UNCHANGED <<is_connected, receive_thread, com_port, baud_rate, command_var,
                   status_label, threads, isopen, opened, rx, tx, terminal, after_q,
                   dialog, destroyed, device>>

\* Lines 132-133 without line 131: the flag is left as it is.
disconnect_flag_kept ==
    /\ fg.pc = "d_flag"
    /\ status_label' = "Disconnected"
    /\ fg' = [fg EXCEPT !.pc = "d_log"]
    /\ UNCHANGED <<serial_connection, is_connected, receive_thread, com_port, baud_rate,
                   command_var, threads, isopen, opened, rx, tx, terminal, after_q,
                   dialog, destroyed, device>>

\* disconnect(), lines 131-133.
disconnect_flag ==
    /\ fg.pc = "d_flag"
    /\ is_connected' = FALSE
    /\ status_label' = "Disconnected"
    /\ fg' = [fg EXCEPT !.pc = "d_log"]
    /\ UNCHANGED <<serial_connection, receive_thread, com_port, baud_rate, command_var,
                   threads, isopen, opened, rx, tx, terminal, after_q, dialog,
                   destroyed, device>>

\* Line 134 indented under the `if` of line 128: after line 130 it never runs.
disconnect_log_if_handle ==
    /\ fg.pc = "d_log"
    /\ terminal' = IF serial_connection # None
                   THEN log_message(DisconnectedMessage, INFO)
                   ELSE terminal
    /\ IF fg.op = "on_closing"
       THEN fg' = [fg EXCEPT !.pc = "destroy"]
       ELSE fg' = Return(fg)
    /\ UNCHANGED <<serial_connection, is_connected, receive_thread, com_port, baud_rate,
                   command_var, status_label, threads, isopen, opened, rx, tx, after_q,
                   dialog, destroyed, device>>

\* disconnect(), line 134; called from on_closing, line 175 is next.
disconnect_log ==
    /\ fg.pc = "d_log"
    /\ terminal' = log_message(DisconnectedMessage, INFO)
    /\ IF fg.op = "on_closing"
       THEN fg' = [fg EXCEPT !.pc = "destroy"]
       ELSE fg' = Return(fg)
    /\ UNCHANGED <<serial_connection, is_connected, receive_thread, com_port, baud_rate,
                   command_var, status_label, threads, isopen, opened, rx, tx, after_q,
                   dialog, destroyed, device>>

\* The event of the Connect/Disconnect button.
toggle_connection ==
    /\ MainLoopReady
    /\ fg' = Frame("toggle_connection", IF ~is_connected THEN "c_open" ELSE "d_close")
    /\ UNCHANGED <<serial_connection, is_connected, receive_thread, com_port, baud_rate,
                   command_var, status_label, threads, isopen, opened, rx, tx, terminal,
                   after_q, dialog, destroyed, device>>

\* A call of the method connect() on the main thread.
connect ==
    /\ MainLoopReady
    /\ fg' = Frame("connect", "c_open")
    /\ UNCHANGED <<serial_connection, is_connected, receive_thread, com_port, baud_rate,
                   command_var, status_label, threads, isopen, opened, rx, tx, terminal,
                   after_q, dialog, destroyed, device>>

\* A call of the method disconnect() on the main thread.
disconnect ==
    /\ MainLoopReady
    /\ fg' = Frame("disconnect", "d_close")
    /\ UNCHANGED <<serial_connection, is_connected, receive_thread, com_port, baud_rate,
                   command_var, status_label, threads, isopen, opened, rx, tx, terminal,
                   after_q, dialog, destroyed, device>>

\* on_closing() without lines 173-174: the window is destroyed at once.
on_closing_destroys_at_once ==
    /\ MainLoopReady
    /\ fg' = Frame("on_closing", "destroy")
    /\ UNCHANGED <<serial_connection, is_connected, receive_thread, com_port, baud_rate,
                   command_var, status_label, threads, isopen, opened, rx, tx, terminal,
                   after_q, dialog, destroyed, device>>

\* WM_DELETE_WINDOW.
on_closing ==
    /\ MainLoopReady
    /\ fg' = Frame("on_closing", IF is_connected THEN "d_close" ELSE "destroy")
    /\ UNCHANGED <<serial_connection, is_connected, receive_thread, com_port, baud_rate,
                   command_var, status_label, threads, isopen, opened, rx, tx, terminal,
                   after_q, dialog, destroyed, device>>

\* on_closing(), line 175.
on_closing_destroy ==
    /\ fg.pc = "destroy"
    /\ destroyed' = TRUE
    /\ fg' = Return(fg)
    /\ UNCHANGED <<serial_connection, is_connected, receive_thread, com_port, baud_rate,
                   command_var, status_label, threads, isopen, opened, rx, tx, terminal,
                   after_q, dialog, device>>

\* The check of line 147 left out.
send_never_rejected == FALSE

\* send_command(), line 147.
send_rejected == ~is_connected

\* The strip() of line 151 left out.
command_unstripped(text) == text

\* send_command(), line 151.
command_of(text) == strip(text)

\* send_command(), lines 155-156.
with_newline(command) ==
    IF ~endswith_newline(command) THEN Append(command, "\n") ELSE command

\* Lines 158 and 159 in the other order: the echo is inserted before the write.
send_write_echo_first(command, ok) ==
    /\ tx' = Append(tx, [handle |-> serial_connection, data |-> encode(command),
                         ok |-> ok])
    /\ terminal' = log_message(SentMessage(command), SENT)
    /\ IF ok
       THEN /\ command_var' = <<>>
            /\ dialog' = dialog
            /\ fg' = Frame("send_command", "idle")
       ELSE /\ command_var' = command_var
            /\ dialog' = "Send Error"
            /\ fg' = Frame("send_command", "dialog")

\* A write that sends the command and its newline as two writes.
send_write_newline_apart(command, ok) ==
    /\ tx' = tx \o <<[handle |-> serial_connection,
                      data |-> encode(rstrip(command)), ok |-> ok],
                     [handle |-> serial_connection,
                      data |-> encode(<<"\n">>), ok |-> ok]>>
    /\ IF ok
       THEN /\ terminal' = log_message(SentMessage(command), SENT)
            /\ command_var' = <<>>
            /\ dialog' = dialog
            /\ fg' = Frame("send_command", "idle")
       ELSE /\ terminal' = terminal
            /\ command_var' = command_var
            /\ dialog' = "Send Error"
            /\ fg' = Frame("send_command", "dialog")

\* send_command(), lines 158-163: write() returns (ok) or raises SerialException.
send_write(command, ok) ==
    /\ tx' = Append(tx, [handle |-> serial_connection, data |-> encode(command),
                         ok |-> ok])
    /\ IF ok
       THEN /\ terminal' = log_message(SentMessage(command), SENT)
            /\ command_var' = <<>>
            /\ dialog' = dialog
            /\ fg' = Frame("send_command", "idle")
       ELSE /\ terminal' = terminal
            /\ command_var' = command_var
            /\ dialog' = "Send Error"
            /\ fg' = Frame("send_command", "dialog")

\* send_command(), lines 146-163, with the text the entry holds when the event
\* arrives.  No receive thread reads what it assigns, so it is one step.
send_command ==
    /\ MainLoopReady
    /\ IF send_rejected
       THEN /\ dialog' = "Not Connected"
            /\ fg' = Frame("send_command", "dialog")
            /\ UNCHANGED <<command_var, tx, terminal>>
       ELSE IF command_of(command_var) = <<>>
       THEN /\ fg' = Frame("send_command", "idle")
            /\ UNCHANGED <<command_var, tx, terminal, dialog>>
       ELSE IF serial_connection = None
       THEN \* None has no attribute write: AttributeError leaves the handler
            /\ dialog' = "Traceback"
            /\ fg' = Frame("send_command", "dialog")
            /\ UNCHANGED <<command_var, tx, terminal>>
       ELSE /\ Len(tx) < MaxTx
            /\ \E ok \in {b \in BOOLEAN : b => serial_connection \in isopen} :
                 send_write(with_newline(command_of(command_var)), ok)
    /\ UNCHANGED <<serial_connection, is_connected, receive_thread, com_port, baud_rate,
                   status_label, threads, isopen, opened, rx, after_q, destroyed, device>>

\* The user types a character in the command entry.
entry_type(c) ==
    /\ MainLoopReady
    /\ Len(command_var) < MaxText
    /\ command_var' = Append(command_var, c)
    /\ UNCHANGED <<serial_connection, is_connected, receive_thread, com_port, baud_rate,
                   status_label, fg, threads, isopen, opened, rx, tx, terminal, after_q,
                   dialog, destroyed, device>>

\* The user deletes the text of the command entry.
entry_clear ==
    /\ MainLoopReady
    /\ command_var # <<>>
    /\ command_var' = <<>>
    /\ UNCHANGED <<serial_connection, is_connected, receive_thread, com_port, baud_rate,
                   status_label, fg, threads, isopen, opened, rx, tx, terminal, after_q,
                   dialog, destroyed, device>>

\* The user closes the messagebox and the handler returns.
dialog_closed ==
    /\ fg.pc = "dialog"
    /\ dialog' = "none"
    /\ fg' = Return(fg)
    /\ UNCHANGED <<serial_connection, is_connected, receive_thread, com_port, baud_rate,
                   command_var, status_label, threads, isopen, opened, rx, tx, terminal,
                   after_q, destroyed, device>>

\* A callback queued by a receive thread (line 142) is run by the main loop.
after_callback ==
    /\ MainLoopReady
    /\ after_q # <<>>
    /\ terminal' = log_message(Head(after_q), DATA)
    /\ after_q' = Tail(after_q)
    /\ UNCHANGED <<serial_connection, is_connected, receive_thread, com_port, baud_rate,
                   command_var, status_label, fg, threads, isopen, opened, rx, tx,
                   dialog, destroyed, device>>

(***************************************************************************)
(* The receive threads: receive_data, lines 136-144.                       *)
(***************************************************************************)
\* A thread ends when the loop condition is false ("exited"), at the break of
\* line 144 ("failed"), or with an exception nothing catches ("crashed").
Ended == {"exited", "failed", "crashed"}
Alive(i) == threads[i].pc \notin Ended

\* A thread is at a statement; ref is the Serial object it is reading from and
\* data the local variable of line 140, both kept only while they are in use.
Goto(i, pc) == threads' = [threads EXCEPT ![i] = [pc |-> pc, ref |-> None, data |-> <<>>]]

\* The process runs until the main loop returns; the threads are daemons.
Running(i) == i \in 1..Len(threads) /\ ~destroyed

\* line 137, left operand of `and`.
receive_while_flag(i) ==
    /\ Running(i)
    /\ threads[i].pc = "while_flag"
    /\ Goto(i, IF is_connected THEN "while_conn" ELSE "exited")
    /\ UNCHANGED <<serial_connection, is_connected, receive_thread, com_port, baud_rate,
                   command_var, status_label, fg, isopen, opened, rx, tx, terminal,
                   after_q, dialog, destroyed, device>>

\* line 137, right operand of `and`.
receive_while_conn(i) ==
    /\ Running(i)
    /\ threads[i].pc = "while_conn"
    /\ Goto(i, IF serial_connection # None THEN "in_waiting" ELSE "exited")
    /\ UNCHANGED <<serial_connection, is_connected, receive_thread, com_port, baud_rate,
                   command_var, status_label, fg, isopen, opened, rx, tx, terminal,
                   after_q, dialog, destroyed, device>>

\* Lines 139 and 143-144 with a handler that also clears the flag before the
\* break.
receive_in_waiting_clears_flag(i) ==
    /\ Running(i)
    /\ threads[i].pc = "in_waiting"
    /\ IF serial_connection = None
       THEN Goto(i, "crashed") /\ is_connected' = is_connected
       ELSE IF serial_connection \notin isopen
       THEN Goto(i, "failed") /\ is_connected' = FALSE
       ELSE \/ /\ Goto(i, IF rx # <<>> THEN "readline" ELSE "while_flag")
               /\ is_connected' = is_connected
            \/ Goto(i, "failed") /\ is_connected' = FALSE
    /\ UNCHANGED <<serial_connection, receive_thread, com_port, baud_rate,
                   command_var, status_label, fg, isopen, opened, rx, tx, terminal,
                   after_q, dialog, destroyed, device>>

\* line 139: None has no attribute in_waiting (AttributeError is not caught); a
\* closed port raises PortNotOpenError, an open one may raise SerialException;
\* both are caught at line 143.
receive_in_waiting(i) ==
    /\ Running(i)
    /\ threads[i].pc = "in_waiting"
    /\ IF serial_connection = None THEN Goto(i, "crashed")
       ELSE IF serial_connection \notin isopen THEN Goto(i, "failed")
       ELSE \/ Goto(i, IF rx # <<>> THEN "readline" ELSE "while_flag")
            \/ Goto(i, "failed")
    /\ UNCHANGED <<serial_connection, is_connected, receive_thread, com_port, baud_rate,
                   command_var, status_label, fg, isopen, opened, rx, tx, terminal,
                   after_q, dialog, destroyed, device>>

\* line 140: self.serial_connection is loaded and readline() is entered.
receive_readline(i) ==
    /\ Running(i)
    /\ threads[i].pc = "readline"
    /\ IF serial_connection = None THEN Goto(i, "crashed")
       ELSE IF serial_connection \notin isopen THEN Goto(i, "failed")
       ELSE threads' = [threads EXCEPT ![i] = [pc |-> "reading", ref |-> serial_connection,
                                               data |-> <<>>]]
    /\ UNCHANGED <<serial_connection, is_connected, receive_thread, com_port, baud_rate,
                   command_var, status_label, fg, isopen, opened, rx, tx, terminal,
                   after_q, dialog, destroyed, device>>

\* Serial.readline() with timeout=1: the bytes up to and including the first
\* line terminator, or, when the time runs out first, the bytes read so far.
\* read(in_waiting) in the place of readline(): every byte that is waiting.
line_end_of_input(bs, i) == Len(bs)

RECURSIVE line_end(_, _)
line_end(bs, i) ==
    IF i > Len(bs) THEN Len(bs)
    ELSE IF bs[i] = 10 THEN i
    ELSE line_end(bs, i + 1)

readline(bs) == SubSeq(bs, 1, line_end(bs, 1))
after_readline(bs) == SubSeq(bs, line_end(bs, 1) + 1, Len(bs))

\* line 140 with the bytes readline() returned: data is assigned.
receive_line(i, bytes) ==
    threads' = [threads EXCEPT ![i] = [pc |-> "after", ref |-> None,
                                       data |-> decode(bytes)]]

\* line 140: readline() returns or raises.  On a port closed while the call
\* was in progress the outcome depends on the platform: SerialException
\* (caught), another exception (not caught), or an empty result.
receive_reading(i) ==
    /\ Running(i)
    /\ threads[i].pc = "reading"
    /\ IF threads[i].ref \in isopen
       THEN \/ /\ receive_line(i, readline(rx))
               /\ rx' = after_readline(rx)
            \/ /\ Goto(i, "failed")
               /\ rx' = rx
       ELSE /\ \/ Goto(i, "failed")
               \/ Goto(i, "crashed")
               \/ Goto(i, "while_flag")
            /\ rx' = rx
    /\ UNCHANGED <<serial_connection, is_connected, receive_thread, com_port, baud_rate,
                   command_var, status_label, fg, isopen, opened, tx, terminal,
                   after_q, dialog, destroyed, device>>

\* The Tk queue of the model has room for MaxAfter callbacks, and one more for
\* each byte the device is set to send.
AfterRoom == Len(after_q) < MaxAfter + Len(device.stream)

\* lines 141-142: a line that is not blank is handed to the main loop.
receive_after(i) ==
    /\ Running(i)
    /\ threads[i].pc = "after"
    /\ IF strip(threads[i].data) # <<>>
       THEN /\ AfterRoom
            /\ after_q' = Append(after_q, rstrip(threads[i].data))
       ELSE after_q' = after_q
    /\ Goto(i, "while_flag")
    /\ UNCHANGED <<serial_connection, is_connected, receive_thread, com_port, baud_rate,
                   command_var, status_label, fg, isopen, opened, rx, tx, terminal,
                   dialog, destroyed, device>>

\* The device sends a byte to the open port.
device_send(b) ==
    /\ isopen # {}
    /\ ~destroyed
    /\ Len(rx) < MaxRx
    /\ rx' = Append(rx, b)
    /\ UNCHANGED <<serial_connection, is_connected, receive_thread, com_port, baud_rate,
                   command_var, status_label, fg, threads, isopen, opened, tx, terminal,
                   after_q, dialog, destroyed, device>>

\* The device sends the next byte it is set to send to the open port.
device_stream ==
    /\ isopen # {}
    /\ ~destroyed
    /\ device.sent < Len(device.stream)
    /\ rx' = Append(rx, device.stream[device.sent + 1])
    /\ device' = [device EXCEPT !.sent = @ + 1]
    /\ UNCHANGED <<serial_connection, is_connected, receive_thread, com_port, baud_rate,
                   command_var, status_label, fg, threads, isopen, opened, tx, terminal,
                   after_q, dialog, destroyed>>

(***************************************************************************)
(* Specifications.                                                         *)
(***************************************************************************)
Handler ==
    \/ connect_open
    \/ connect_flag
    \/ connect_start
    \/ connect_log
    \/ disconnect_close
    \/ disconnect_clear
    \/ disconnect_flag
    \/ disconnect_log
    \/ on_closing_destroy
    \/ dialog_closed

Receive ==
    \E i \in 1..MaxOpens :
        \/ receive_while_flag(i)
        \/ receive_while_conn(i)
        \/ receive_in_waiting(i)
        \/ receive_readline(i)
        \/ receive_reading(i)
        \/ receive_after(i)

\* The program as main() runs it, driven by the connect button, the close
\* button and the device; the user sends no command.
Next ==
    \/ toggle_connection
    \/ on_closing
    \/ Handler
    \/ Receive
    \/ after_callback
    \/ \E b \in Bytes : device_send(b)

Spec == Init /\ [][Next]_vars

\* The same program with connect() and disconnect() also called as methods.
NextCalls ==
    \/ connect
    \/ disconnect
    \/ Next

SpecCalls == Init /\ [][NextCalls]_vars

\* The program driven by the connect button and the command entry, with a
\* device that sends nothing: no receive thread gets past in_waiting, and no
\* callback is queued.
NextSend ==
    \/ toggle_connection
    \/ \E c \in Chars : entry_type(c)
    \/ entry_clear
    \/ send_command
    \/ connect_open
    \/ connect_flag
    \/ connect_start
    \/ connect_log
    \/ disconnect_close
    \/ disconnect_clear
    \/ disconnect_flag
    \/ disconnect_log
    \/ dialog_closed
    \/ \E i \in 1..MaxOpens :
           \/ receive_while_flag(i)
           \/ receive_while_conn(i)
           \/ receive_in_waiting(i)

SpecSend == Init /\ [][NextSend]_vars

\* One connection on which the device sends three lines: the receive thread and
\* the queued callbacks; the user does nothing.
NextStream ==
    \/ Receive
    \/ after_callback
    \/ device_stream

SpecStream == InitStream /\ [][NextStream]_vars

\* The window with a device that sends nothing: the Connect button, the close
\* button and the receive threads, which find no byte waiting.
NextQuiet ==
    \/ toggle_connection
    \/ on_closing
    \/ Handler
    \/ \E i \in 1..MaxOpens :
           \/ receive_while_flag(i)
           \/ receive_while_conn(i)
           \/ receive_in_waiting(i)

SpecQuiet == Init /\ [][NextQuiet]_vars

\* The steps of receive thread i.
ReceiveStep(i) ==
    \/ receive_while_flag(i)
    \/ receive_while_conn(i)
    \/ receive_in_waiting(i)
    \/ receive_readline(i)
    \/ receive_reading(i)
    \/ receive_after(i)

\* Scheduling: a handler that has started runs on, and every receive thread
\* that can take a step is given one in the end.  The user owes no event.
SpecFair ==
    /\ SpecQuiet
    /\ WF_vars(Handler)
    /\ \A i \in 1..MaxOpens : WF_vars(ReceiveStep(i))

\* The Connect button used any number of times, with a device that sends two
\* lines to whichever port is open.
NextReconnect ==
    \/ toggle_connection
    \/ connect_open
    \/ connect_flag
    \/ connect_start
    \/ connect_log
    \/ disconnect_close
    \/ disconnect_clear
    \/ disconnect_flag
    \/ disconnect_log
    \/ dialog_closed
    \/ Receive
    \/ after_callback
    \/ device_stream

SpecReconnect == InitReconnect /\ [][NextReconnect]_vars

\* The main thread alone: the methods connect(), disconnect() and
\* send_command() called in any order, whatever the state.  The receive threads
\* are started and not scheduled; their steps assign nothing that the main
\* thread reads back other than the Tk queue (C18).
NextMethods ==
    \/ connect
    \/ disconnect
    \/ send_command
    \/ \E c \in Chars : entry_type(c)
    \/ entry_clear
    \/ connect_open
    \/ connect_flag
    \/ connect_start
    \/ connect_log
    \/ disconnect_close
    \/ disconnect_clear
    \/ disconnect_flag
    \/ disconnect_log
    \/ dialog_closed

SpecMethods == Init /\ [][NextMethods]_vars

\* Every event, call and thread together.
NextAll ==
    \/ NextCalls
    \/ \E c \in Chars : entry_type(c)
    \/ entry_clear
    \/ send_command

SpecAll == Init /\ [][NextAll]_vars

(***************************************************************************)
(* Properties.                                                             *)
(***************************************************************************)
AliveIn(ths) == {i \in 1..Len(ths) : ths[i].pc \notin Ended}
AliveReaders == AliveIn(threads)

IsLifecycle(e) == e.prefix = INFO
Lifecycle(t) == SelectSeq(t, IsLifecycle)

ConnectNotice == [prefix |-> INFO, message |-> ConnectedMessage]
DisconnectNotice == [prefix |-> INFO, message |-> DisconnectedMessage]

\* No handler is running on the main thread and the window lives.
Quiet == fg.pc = "idle" /\ ~destroyed

\* C1: between handlers, a receive loop is running if and only if the state is
\* Connected, and at most one receive thread is alive.
C1_ReaderIffConnected ==
    Quiet =>
        /\ (AliveReaders # {}) <=> is_connected
        /\ Cardinality(AliveReaders) <= 1

\* C2: once the receive loop of the current connection has stopped at a read
\* error (the break of line 144) and nothing is left for the main thread to
\* run, the state is Disconnected and a lifecycle line after the connect
\* notice reports it.
C2_ReadErrorDisconnects ==
    (/\ Quiet
     /\ after_q = <<>>
     /\ receive_thread # None
     /\ threads[receive_thread].pc = "failed")
    => /\ ~is_connected
       /\ Lifecycle(terminal) # <<>>
       /\ Lifecycle(terminal)[Len(Lifecycle(terminal))] # ConnectNotice

\* C3: connect() called while the state is Connected is rejected with
\* AlreadyConnected: no step of the call changes the flag, the handle, the open
\* transports or the receive threads, and the only thing it reports is
\* AlreadyConnected.
C3_ConnectWhileConnectedRejected ==
    [][(fg.op = "connect" /\ fg.c0 /\ fg.pc # "idle")
        => /\ is_connected' = is_connected
           /\ serial_connection' = serial_connection
           /\ opened' = opened
           /\ isopen' = isopen
           /\ Len(threads') = Len(threads)
           /\ dialog' \in {dialog, "Already Connected"}]_vars

\* The text of a command, stated without strip():
\* blank is all white space; trimmed is from the first to the last character
\* that is not white space.
IsBlank(text) == \A i \in 1..Len(text) : text[i] \in Whitespace
Trimmed(text) ==
    LET solid == {i \in 1..Len(text) : text[i] \notin Whitespace}
        first == CHOOSE i \in solid : \A j \in solid : i <= j
        last == CHOOSE i \in solid : \A j \in solid : j <= i
    IN  IF solid = {} THEN <<>> ELSE SubSeq(text, first, last)

\* The write a step of send_command has made, if it made one.
Wrote == Len(tx') = Len(tx) + 1
LastWrite == tx'[Len(tx')]

\* C4: send_command while Disconnected, whatever the entry holds, writes
\* nothing, shows the Not Connected warning, inserts no line and leaves the
\* flag, the handle, the transports and the receive threads as they were.
C4_SendWhileDisconnected ==
    [][(send_command /\ ~is_connected)
        => /\ dialog' = "Not Connected"
           /\ tx' = tx
           /\ terminal' = terminal
           /\ UNCHANGED <<is_connected, serial_connection, isopen, threads>>]_vars

C4_Witness ==
    /\ fg.op = "send_command" /\ fg.pc = "dialog" /\ ~fg.c0
    /\ dialog = "Not Connected"
    /\ ~IsBlank(command_var)

\* C5, as claimed: send_command while Connected with a text that is not blank
\* writes the trimmed text and one line terminator, and when the write succeeds
\* inserts one line with prefix "> " whose text is the command itself.
C5_SendEchoesCommand ==
    [][(send_command /\ is_connected /\ ~IsBlank(command_var))
        => /\ Wrote
           /\ LastWrite.handle = serial_connection
           /\ LastWrite.data = encode(Trimmed(command_var) \o <<"\n">>)
           /\ LastWrite.ok =>
                terminal' = Append(terminal, [prefix |-> SENT,
                                              message |-> Trimmed(command_var)])
           /\ ~LastWrite.ok => terminal' = terminal]_vars

\* C5, amended: the same, but the text of the inserted line is "Sent: "
\* followed by the trimmed command.
C5_SendEchoesSentCommand ==
    [][(send_command /\ is_connected /\ ~IsBlank(command_var))
        => /\ Wrote
           /\ LastWrite.handle = serial_connection
           /\ LastWrite.data = encode(Trimmed(command_var) \o <<"\n">>)
           /\ LastWrite.ok =>
                terminal' = Append(terminal,
                    [prefix |-> SENT,
                     message |-> <<"S", "e", "n", "t", ":", " ">>
                                     \o Trimmed(command_var)])
           /\ ~LastWrite.ok => terminal' = terminal]_vars

C5_Witness ==
    /\ fg.op = "send_command" /\ fg.pc = "idle" /\ fg.c0
    /\ tx # <<>> /\ tx[Len(tx)].ok /\ tx[Len(tx)].data = <<112, 10>>
    /\ terminal # <<>>
    /\ terminal[Len(terminal)] =
           [prefix |-> SENT, message |-> <<"S", "e", "n", "t", ":", " ", "p">>]

\* C6: send_command while Connected with an empty or blank text writes nothing,
\* inserts no line, shows nothing and leaves the connection as it was.
C6_BlankSendDoesNothing ==
    [][(send_command /\ is_connected /\ IsBlank(command_var))
        => /\ tx' = tx
           /\ terminal' = terminal
           /\ dialog' = dialog
           /\ UNCHANGED <<is_connected, serial_connection, isopen, threads>>]_vars

C6_Witness ==
    /\ fg.op = "send_command" /\ fg.pc = "idle" /\ fg.c0
    /\ command_var # <<>> /\ IsBlank(command_var)
    /\ is_connected

\* C7: when the write of a send_command raises, the Send Error dialog is shown,
\* no line is inserted for the command, and the state stays Connected with the
\* same handle, transports and receive threads.
C7_WriteFailureKeepsConnection ==
    [][(send_command /\ Wrote /\ ~LastWrite.ok)
        => /\ dialog' = "Send Error"
           /\ terminal' = terminal
           /\ is_connected'
           /\ UNCHANGED <<is_connected, serial_connection, isopen, threads>>]_vars

C7_Witness ==
    /\ fg.op = "send_command" /\ fg.pc = "dialog"
    /\ dialog = "Send Error"
    /\ tx # <<>> /\ ~tx[Len(tx)].ok
    /\ is_connected

\* The lines the running handler has inserted, after a step of it.
Inserted == SubSeq(terminal', fg.t0 + 1, Len(terminal'))

\* C8: a connect on a Disconnected state whose open fails shows the
\* Connection Error dialog and leaves the state Disconnected, with no handle
\* kept, no receive thread started and no line inserted; one whose open
\* succeeds opens one transport, starts one thread, and returns in state
\* Connected with that transport the only open one and that thread the only
\* receive thread alive.
C8_ConnectOpensOneOrFails ==
    [][/\ (fg.pc = "c_open" /\ ~fg.c0 /\ fg'.pc = "dialog")
            => /\ dialog' = "Connection Error"
               /\ ~is_connected' /\ serial_connection' = None
               /\ UNCHANGED <<threads, terminal, isopen, opened>>
       /\ (fg.pc = "c_open" /\ ~fg.c0 /\ fg'.pc = "c_flag")
            => /\ opened' = opened + 1
               /\ isopen' = {serial_connection'}
       /\ (fg.pc = "c_start" /\ ~fg.c0 /\ fg'.pc = "c_log")
            => Len(threads') = Len(threads) + 1
       /\ (fg.pc = "c_log" /\ ~fg.c0 /\ fg'.pc = "idle")
            => /\ is_connected'
               /\ isopen' = {serial_connection'}
               /\ AliveIn(threads') \subseteq {receive_thread'}]_vars

\* C9: a handler that returns with the flag changed has inserted exactly one
\* lifecycle line, the notice of the state it leaves; and a disconnect that
\* follows a connect leaves the state Disconnected with the connect notice and
\* the disconnect notice as the last two lifecycle lines, in this order.
C9_OneNoticePerTransition ==
    [][(fg.pc \notin {"idle", "dialog"} /\ fg'.pc \in {"idle", "destroy"}
            /\ fg.pc # "destroy")
        => /\ (is_connected' # fg.c0) =>
                Lifecycle(Inserted)
                    = <<IF is_connected' THEN ConnectNotice ELSE DisconnectNotice>>
           /\ (fg.c0 /\ fg.op \in {"toggle_connection", "on_closing"}) =>
                LET notices == Lifecycle(terminal')
                IN  /\ ~is_connected'
                    /\ Len(notices) >= 2
                    /\ SubSeq(notices, Len(notices) - 1, Len(notices))
                           = <<ConnectNotice, DisconnectNotice>>]_vars

C9_Witness ==
    /\ fg.op = "toggle_connection" /\ fg.pc = "idle" /\ fg.c0
    /\ ~is_connected
    /\ Lifecycle(terminal) = <<ConnectNotice, DisconnectNotice>>
    /\ Len(terminal) = 3

\* C10: disconnect() called while the state is Disconnected is a no-op: no step
\* of the call changes the flag, the handle or the open transports, and none
\* inserts a line.
C10_DisconnectIdempotent ==
    [][(fg.op = "disconnect" /\ ~fg.c0 /\ fg.pc # "idle")
        => /\ terminal' = terminal
           /\ UNCHANGED <<is_connected, serial_connection, isopen, status_label>>]_vars

\* The lines of the terminal that echo a sent command.
IsEcho(e) == e.prefix = SENT
Echoes(t) == SelectSeq(t, IsEcho)

\* C11: a send_command call made while Connected with a command that is not
\* blank makes exactly one write, whether the write succeeds or fails; no other
\* step makes a write or removes one; each step inserts at most one echo line,
\* and the echo lines are never more than the writes.
C11_OneWritePerSend ==
    [][/\ IF send_command /\ is_connected /\ ~IsBlank(command_var)
          THEN /\ Wrote
               /\ SubSeq(tx', 1, Len(tx)) = tx
          ELSE tx' = tx
       /\ Len(Echoes(terminal')) <= Len(Echoes(terminal)) + 1
       /\ Len(Echoes(terminal')) <= Len(tx')]_vars

C11_Witness ==
    /\ fg.op = "send_command" /\ fg.c0
    /\ Len(tx) = 1
    /\ Len(Echoes(terminal)) = 1
    /\ is_connected

\* The device lines of the terminal, in the order of the log.
IsData(e) == e.prefix = DATA
DataTexts(t) == [k \in 1..Len(SelectSeq(t, IsData)) |-> SelectSeq(t, IsData)[k].message]

RECURSIVE Flatten(_)
Flatten(texts) == IF texts = <<>> THEN <<>> ELSE Head(texts) \o Flatten(Tail(texts))

\* The places in Flatten(texts) where one text ends and the next one begins.
Cuts(texts) == {Len(Flatten(SubSeq(texts, 1, k))) : k \in 1..Len(texts)}

\* Everything the device was set to send has been read and has passed through
\* the Tk queue into the terminal.
StreamLogged ==
    /\ device.stream # <<>>
    /\ device.sent = Len(device.stream)
    /\ rx = <<>>
    /\ after_q = <<>>
    /\ \A i \in 1..Len(threads) : threads[i].pc \notin {"reading", "after"}

RECURSIVE TerminatedLines(_)
TerminatedLines(bs) ==
    IF \A k \in 1..Len(bs) : bs[k] # 10 THEN <<>>
    ELSE LET end == CHOOSE k \in 1..Len(bs) :
                        bs[k] = 10 /\ \A j \in 1..(k - 1) : bs[j] # 10
         IN  <<Trimmed(decode(SubSeq(bs, 1, end)))>>
                 \o TerminatedLines(SubSeq(bs, end + 1, Len(bs)))

NotEmpty(text) == text # <<>>
LinesOf(bs) == SelectSeq(TerminatedLines(bs), NotEmpty)

IsPrefix(a, b) == Len(a) <= Len(b) /\ SubSeq(b, 1, Len(a)) = a

\* What the receive threads have emitted: the device lines of the terminal, and
\* after them the lines that wait in the Tk queue.
Emitted == DataTexts(terminal) \o after_q

\* C13: the texts emitted are the terminated lines of the bytes the device has
\* sent, in their order, however the bytes arrive: at any time they are the
\* first lines of the stream so far, bytes that no terminator follows are in
\* none of them, and when the stream has been read they are all its lines.
C13_EmitsTerminatedLines ==
    /\ IsPrefix(Emitted, LinesOf(SubSeq(device.stream, 1, device.sent)))
    /\ (StreamLogged /\ AliveReaders # {}) => Emitted = LinesOf(device.stream)

\* C14: no step uses a Serial object that has been closed or a handle that has
\* been cleared: a receive thread that evaluates in_waiting or calls readline
\* finds in self.serial_connection an open port, a readline in progress returns
\* from a port that is still open, and a write goes to an open port.
C14_NoUseAfterClose ==
    [][/\ \A i \in 1..Len(threads) :
            threads'[i] # threads[i] =>
                /\ threads[i].pc \in {"in_waiting", "readline"}
                       => serial_connection # None /\ serial_connection \in isopen
                /\ threads[i].pc = "reading" => threads[i].ref \in isopen
       /\ Wrote => LastWrite.handle \in isopen]_vars

\* C15: disconnect goes stop, then close, then state, then notice: when a port
\* is closed no receive thread is alive any more; when the flag is cleared no
\* port is open; when the disconnect notice is inserted the flag is clear.
C15_StopThenClose ==
    [][/\ (isopen' # isopen /\ isopen' \subseteq isopen) => AliveReaders = {}
       /\ (is_connected /\ ~is_connected') => isopen = {}
       /\ (/\ Len(terminal') = Len(terminal) + 1
           /\ terminal'[Len(terminal')] = DisconnectNotice) => ~is_connected]_vars

\* C16: with the receive threads scheduled fairly, the receive thread of a
\* connection whose port has been closed by disconnect comes to its end (or
\* the process does), whatever the user does afterwards.
C16_ReaderTerminates ==
    \A i \in 1..MaxOpens :
        (i <= Len(threads) /\ i \notin isopen)
            ~> (i <= Len(threads) /\ (~Alive(i) \/ destroyed))

\* The place of a character in the bytes the device is set to send, for a
\* stream in which no character comes twice.
PlaceOf(c) == CHOOSE k \in 1..Len(device.stream) : device.stream[k] = CodePoint(c)

\* C17: the device lines stand in the log, and before that in the Tk queue, in
\* the order in which they were read from the port, none of them twice: the
\* characters of the emitted texts follow the order of the stream.  When one
\* connection has read the whole stream none is missing.
C17_LogKeepsArrivalOrder ==
    LET chars == Flatten(Emitted)
    IN  /\ \A j, k \in 1..Len(chars) : j < k => PlaceOf(chars[j]) < PlaceOf(chars[k])
        /\ (StreamLogged /\ opened = 1 /\ AliveReaders # {})
               => chars = Flatten(LinesOf(device.stream))

\* A receive thread has taken a step.
ReaderStepped == \E i \in 1..Len(threads) : threads'[i] # threads[i]

IsSuffix(a, b) == Len(a) <= Len(b) /\ SubSeq(b, Len(b) - Len(a) + 1, Len(b)) = a

\* C18: a step of a receive thread writes nothing to the port and assigns
\* nothing the main thread owns: the flag, the handle, the ports, the status
\* label, the entry and the terminal stay as they are; it only takes bytes
\* from the front of the input and puts at most one line in the Tk queue.
C18_ReaderOnlyReadsAndQueues ==
    [][ReaderStepped
        => /\ UNCHANGED <<is_connected, serial_connection, receive_thread, isopen,
                          opened, tx, terminal, status_label, command_var, com_port,
                          baud_rate, fg, dialog, destroyed>>
           /\ IsSuffix(rx', rx)
           /\ \/ after_q' = after_q
              \/ \E i \in 1..Len(threads) :
                    after_q' = Append(after_q, rstrip(threads[i].data))]_vars

C18_Witness ==
    /\ is_connected
    /\ serial_connection \in isopen
    /\ after_q # <<>>
    /\ \E i \in 1..Len(threads) : threads[i].pc = "failed"

\* C19: when no handler is running, is_connected is true only if
\* self.serial_connection is a Serial object that is open, after any calls of
\* connect (opening or failing), disconnect and send_command; and the write of
\* send_command has never been tried on None.
C19_ConnectedHasOpenHandle ==
    /\ (fg.pc = "idle" /\ is_connected)
           => serial_connection # None /\ serial_connection \in isopen
    /\ dialog # "Traceback"
    /\ \A k \in 1..Len(tx) : tx[k].handle # None

C19_Witness ==
    /\ fg.op = "send_command" /\ fg.pc = "idle"
    /\ is_connected
    /\ opened = 2
    /\ tx # <<>>
    /\ tx[Len(tx)].handle = serial_connection

\* C20: once the window is destroyed the flag is clear, the handle is None and
\* no port is open.  Closing the window while Connected has run disconnect
\* first: its notice is the one line the handler has inserted.  Closing it
\* while Disconnected changes neither the flag, the handle, the ports nor the
\* terminal on its way to destroy.
C20_CloseDisconnectsFirst ==
    [][/\ destroyed'
           => /\ ~is_connected'
              /\ serial_connection' = None
              /\ isopen' = {}
              /\ status_label' = "Disconnected"
       /\ (destroyed' /\ ~destroyed /\ fg.c0)
           => /\ Len(terminal') = fg.t0 + 1
              /\ terminal'[Len(terminal')] = DisconnectNotice
       /\ (fg'.op = "on_closing" /\ ~fg'.c0)
           => /\ fg'.pc \in {"destroy", "idle"}
              /\ UNCHANGED <<is_connected, serial_connection, isopen, terminal>>
              /\ Len(terminal') = fg'.t0]_vars

C20_Witness ==
    /\ destroyed
    /\ fg.op = "on_closing" /\ fg.c0
    /\ terminal[Len(terminal)] = DisconnectNotice
    /\ AliveReaders # {}

====
